---- MODULE Spec2Model ----
(***************************************************************************)
(* A model of WaveformItem (src/src/waveformitem.cpp) of the Shuriken beat *)
(* slicer: the adaptive waveform renderer with its incremental min/max bin *)
(* cache, and the drag-reorder controller.                                 *)
(*                                                                         *)
(* Real numbers are exact rationals.  A horizontal scale factor is the     *)
(* integer numerator of a fraction over ScaleDen, binSize a record         *)
(* [num, den]; the edges of an exposed rectangle are whole pixels.  Sample *)
(* values are small integers.  Bin b of a per-channel array is element     *)
(* b + 1 of a sequence.                                                    *)
(***************************************************************************)
EXTENDS Integers, Sequences, FiniteSets, TLC

\* ------------------------------------------------------------------ bounds
MaxWidth == 2
NumFrames == 12
NumChans == 2
ScaleDen == 2

\* --------------------------------------------------- constants of the item
\* waveformitem.h is not among the sources; the values are the header's.
NOT_SET == -1
CutoffDen == 20
DETAIL_LEVEL_MAX_CUTOFF == 1
DETAIL_LEVEL_VERY_HIGH_CUTOFF == 20
DETAIL_LEVEL_HIGH_CUTOFF == 200

Chans == 0 .. (NumChans - 1)
Widths == 1 .. MaxWidth
\* numerators over ScaleDen of the scale factors a view may paint with: up
\* to one pixel per frame, and the one that brings binSize down to
\* DETAIL_LEVEL_MAX_CUTOFF
ZoomNums == {1, 5, 8, ScaleDen * NumFrames, CutoffDen * ScaleDen * NumFrames}
Unset == NOT_SET * ScaleDen

Min2(a, b) == IF a < b THEN a ELSE b
Max2(a, b) == IF a > b THEN a ELSE b
\* floor and ceil of the non-negative rational n / d
FloorDiv(n, d) == n \div d
CeilDiv(n, d) == (n + d - 1) \div d

\* the sample buffers an item may be constructed with: 2 channels of
\* NumFrames frames with values in -2 .. 2
BufferOf(k, s) == [c \in Chans |-> [f \in 0 .. (NumFrames - 1) |-> ((f * k + c * 3 + s) % 5) - 2]]
Buffers == {BufferOf(1, 0), BufferOf(3, 4)}

VARIABLES sampleBuffer, rectWidth, globalScaleFactor, numBins, binSize,
          detailLevel, firstCalculatedBin, lastCalculatedBin,
          minSampleValues, maxSampleValues,
          requeried, lastPaint, emitted, lastOp,
          orderPos, itemX, selected, orderPosBeforeMove,
          grabber, offset, pressX, pressOrder, lastMove,
          movable, selectable, accepted, detached, lastChange

\* the renderer's fields and the record of its last paint
renderOnly == <<sampleBuffer, rectWidth, globalScaleFactor, numBins, binSize,
                detailLevel, firstCalculatedBin, lastCalculatedBin,
                minSampleValues, maxSampleValues, requeried, lastPaint>>
\* the scene's items and the drag in progress
dragOnly == <<orderPos, itemX, selected, orderPosBeforeMove,
              grabber, offset, pressX, pressOrder, lastMove,
              movable, selectable, accepted, detached, lastChange>>
vars == <<renderOnly, dragOnly, emitted, lastOp>>

\* ----------------------------------------------------------- juce::Array
\* An element of a min or max array is <<v>> when findMinMaxSamples stored
\* the value v since the last resize, and Stale otherwise.  Array::resize
\* keeps the leading elements and zero-fills new ones: what such an element
\* holds was computed for other bin boundaries or never, and the model
\* keeps only that fact.
Stale == <<>>
ArrayResize(arr, n) == [i \in 1 .. n |-> Stale]
\* Array::set replaces an element in range and appends otherwise
ArraySet(arr, idx, v) == IF idx < Len(arr) THEN [arr EXCEPT ![idx + 1] = <<v>>] ELSE Append(arr, <<v>>)
\* an element written with a value that was read outside the sample buffer
ArraySetUndefined(arr, idx) == IF idx < Len(arr) THEN [arr EXCEPT ![idx + 1] = Stale] ELSE Append(arr, Stale)
\* Array::operator[] returns a default value outside the range
ArrayGet(arr, idx) == IF idx >= 0 /\ idx < Len(arr) THEN arr[idx + 1] ELSE Stale

\* ------------------------------------------------------------- binSize
BinSizeOf(w, z) == [num |-> NumFrames * ScaleDen, den |-> w * z]
\* a variant that rounds the number of bins up
NumBinsOf_RoundUp(w, z) == CeilDiv(w * z, ScaleDen)
NumBinsOf(w, z) == FloorDiv(w * z, ScaleDen)
\* binSize <= cutoff / CutoffDen
BinSizeLeq(bs, cutoff) == bs.num * CutoffDen <= cutoff * bs.den
\* a variant that starts bin binNum at binNum whole bin lengths
BinStartFrame_WholeBins(bs, binNum) == binNum * FloorDiv(bs.num, bs.den)
\* int( binNum * m_binSize ) and int( m_binSize )
BinStartFrame(bs, binNum) == FloorDiv(binNum * bs.num, bs.den)
BinNumFrames(bs) == FloorDiv(bs.num, bs.den)

\* a variant whose VERY_HIGH test is strict
DetailLevelOf_Strict(bs) ==
    IF bs.num * CutoffDen < DETAIL_LEVEL_VERY_HIGH_CUTOFF * bs.den THEN "VERY_HIGH"
    ELSE IF BinSizeLeq(bs, DETAIL_LEVEL_HIGH_CUTOFF) THEN "HIGH"
    ELSE "LOW"
DetailLevelOf(bs) ==
    IF BinSizeLeq(bs, DETAIL_LEVEL_VERY_HIGH_CUTOFF) THEN "VERY_HIGH"
    ELSE IF BinSizeLeq(bs, DETAIL_LEVEL_HIGH_CUTOFF) THEN "HIGH"
    ELSE "LOW"

\* an emitted signal: its name, the list of order positions and the
\* displacement it carries (empty and 0 for a signal that carries neither)
Signal(name, positions, n) == [sig |-> name, positions |-> positions, n |-> n]

\* a variant that reports a level only when it is not the one in force
ResetSignals_OnEntry(bs) ==
    IF DetailLevelOf(bs) = detailLevel THEN <<>>
    ELSE IF BinSizeLeq(bs, DETAIL_LEVEL_VERY_HIGH_CUTOFF)
    THEN <<Signal("sampleDetailLevelReached", <<>>, 0)>> \o
         (IF BinSizeLeq(bs, DETAIL_LEVEL_MAX_CUTOFF)
          THEN <<Signal("maxDetailLevelReached", <<>>, 0)>> ELSE <<>>)
    ELSE <<Signal("sampleBinDetailLevelReached", <<>>, 0)>>
\* the signals resetSampleBins emits, in order
ResetSignals(bs) ==
    IF BinSizeLeq(bs, DETAIL_LEVEL_VERY_HIGH_CUTOFF)
    THEN <<Signal("sampleDetailLevelReached", <<>>, 0)>> \o
         (IF BinSizeLeq(bs, DETAIL_LEVEL_MAX_CUTOFF)
          THEN <<Signal("maxDetailLevelReached", <<>>, 0)>> ELSE <<>>)
    ELSE <<Signal("sampleBinDetailLevelReached", <<>>, 0)>>

\* ------------------------------------------------------ the item's cache
\* The fields resetSampleBins, findMinMaxSamples and the draw functions
\* work on, as one record.
CacheState == [first |-> firstCalculatedBin, last |-> lastCalculatedBin,
               mins |-> minSampleValues, maxs |-> maxSampleValues,
               nb |-> numBins, bs |-> binSize, dl |-> detailLevel,
               rq |-> requeried, log |-> {}]

\* a variant that leaves the cached range as it was
ResetSampleBins_KeepRange(c, w, z) ==
    LET nb == NumBinsOf(w, z)
        bs == BinSizeOf(w, z)
        dl == DetailLevelOf(bs)
        resized == dl # "VERY_HIGH"
    IN [c EXCEPT !.nb = nb, !.bs = bs, !.dl = dl,
                 !.mins = IF resized THEN [ch \in Chans |-> ArrayResize(c.mins[ch], nb)] ELSE @,
                 !.maxs = IF resized THEN [ch \in Chans |-> ArrayResize(c.maxs[ch], nb)] ELSE @,
                 !.rq = {}]
ResetSampleBins(c, w, z) ==
    LET nb == NumBinsOf(w, z)
        bs == BinSizeOf(w, z)
        dl == DetailLevelOf(bs)
        resized == dl # "VERY_HIGH"
    IN [c EXCEPT !.first = NOT_SET, !.last = NOT_SET,
                 !.nb = nb, !.bs = bs, !.dl = dl,
                 !.mins = IF resized THEN [ch \in Chans |-> ArrayResize(c.mins[ch], nb)] ELSE @,
                 !.maxs = IF resized THEN [ch \in Chans |-> ArrayResize(c.maxs[ch], nb)] ELSE @,
                 !.rq = {}]

\* SampleBuffer::findMinMax( chan, startFrame, numFrames )
RECURSIVE RangeMin(_, _, _), RangeMax(_, _, _)
RangeMin(samples, start, n) ==
    IF n <= 1 THEN samples[start]
    ELSE Min2(samples[start], RangeMin(samples, start + 1, n - 1))
RangeMax(samples, start, n) ==
    IF n <= 1 THEN samples[start]
    ELSE Max2(samples[start], RangeMax(samples, start + 1, n - 1))
FindMinMax(buf, chan, start, n) ==
    [start |-> RangeMin(buf[chan], start, n), end |-> RangeMax(buf[chan], start, n)]

\* the body of the inner loop of findMinMaxSamples for one channel and bin
\* whether findMinMax is asked for frames of the buffer only
InBuffer(start, n) == start >= 0 /\ n >= 1 /\ start + n <= NumFrames
FillBin(c, buf, z, chanNum, binNum) ==
    LET start == BinStartFrame(c.bs, binNum)
        n == BinNumFrames(c.bs)
        range == FindMinMax(buf, chanNum, start, n)
    IN [c EXCEPT !.mins[chanNum] = IF InBuffer(start, n) THEN ArraySet(@, binNum, range.start)
                                   ELSE ArraySetUndefined(@, binNum),
                 !.maxs[chanNum] = IF InBuffer(start, n) THEN ArraySet(@, binNum, range.end)
                                   ELSE ArraySetUndefined(@, binNum),
                 !.log = @ \cup {<<chanNum, binNum>>},
                 !.rq = IF ArrayGet(c.mins[chanNum], binNum) # Stale \/ <<chanNum, binNum>> \in c.log
                        THEN @ \cup {<<chanNum, binNum>>} ELSE @]

RECURSIVE FillBins(_, _, _, _, _, _), FillChans(_, _, _, _, _, _)
FillBins(c, buf, z, chanNum, binNum, endBin) ==
    IF binNum > endBin THEN c
    ELSE FillBins(FillBin(c, buf, z, chanNum, binNum), buf, z, chanNum, binNum + 1, endBin)
FillChans(c, buf, z, chanNum, startBin, endBin) ==
    IF chanNum >= NumChans THEN c
    ELSE FillChans(FillBins(c, buf, z, chanNum, startBin, endBin), buf, z, chanNum + 1, startBin, endBin)
FindMinMaxSamples(c, buf, z, startBin, endBin) == FillChans(c, buf, z, 0, startBin, endBin)

\* firstVisibleBin and lastVisibleBin of drawWaveformFromSampleBins
FirstVisibleBin(left, z) == Max2(FloorDiv(left * z, ScaleDen), 0)
LastVisibleBin(right, z, nb) == Min2(CeilDiv(right * z, ScaleDen), nb - 1)

\* a variant that fills every bin of the item when the cache is empty
FillEmpty_AllBins(c, buf, z, fv, lv) ==
    IF c.first = NOT_SET \/ c.last = NOT_SET
    THEN [FindMinMaxSamples(c, buf, z, 0, c.nb - 1) EXCEPT !.first = fv, !.last = lv]
    ELSE c
\* the three cache-extension steps of drawWaveformFromSampleBins
FillEmpty(c, buf, z, fv, lv) ==
    IF c.first = NOT_SET \/ c.last = NOT_SET
    THEN [FindMinMaxSamples(c, buf, z, fv, lv) EXCEPT !.first = fv, !.last = lv]
    ELSE c
ExtendLeft(c, buf, z, fv) ==
    IF fv < c.first
    THEN [FindMinMaxSamples(c, buf, z, fv, c.first - 1) EXCEPT !.first = fv]
    ELSE c
\* a variant that fills from the last cached bin on
ExtendRight_Refill(c, buf, z, lv) ==
    IF lv > c.last
    THEN [FindMinMaxSamples(c, buf, z, c.last, lv) EXCEPT !.last = lv]
    ELSE c
\* a variant that skips the bin right after the cached range
ExtendRight_SkipOne(c, buf, z, lv) ==
    IF lv > c.last
    THEN [FindMinMaxSamples(c, buf, z, c.last + 2, lv) EXCEPT !.last = lv]
    ELSE c
ExtendRight(c, buf, z, lv) ==
    IF lv > c.last
    THEN [FindMinMaxSamples(c, buf, z, c.last + 1, lv) EXCEPT !.last = lv]
    ELSE c
DrawWaveformFromSampleBins(c, buf, z, left, right) ==
    LET fv == FirstVisibleBin(left, z)
        lv == LastVisibleBin(right, z, c.nb)
    IN ExtendRight(ExtendLeft(FillEmpty(c, buf, z, fv, lv), buf, z, fv), buf, z, lv)

\* a variant that draws the sample values as they are
DrawWaveformFromSamples_NotInverted(buf, w, left, right) ==
    LET firstVisibleFrame == FloorDiv(left * NumFrames, w)
        lastVisibleFrame == Min2(CeilDiv(right * NumFrames, w), NumFrames - 1)
        numVisibleFrames == lastVisibleFrame - firstVisibleFrame + 1
    IN [ch \in Chans |->
          [count \in 1 .. numVisibleFrames |->
              [frame |-> firstVisibleFrame + count - 1,
               x |-> (firstVisibleFrame + count - 1) * w,
               y |-> buf[ch][firstVisibleFrame + count - 1]]]]
\* drawWaveformFromSamples: per channel the points of the polyline it
\* draws, each with the frame it comes from, its x as a numerator over
\* NumFrames and its y
DrawWaveformFromSamples(buf, w, left, right) ==
    LET firstVisibleFrame == FloorDiv(left * NumFrames, w)
        lastVisibleFrame == Min2(CeilDiv(right * NumFrames, w), NumFrames - 1)
        numVisibleFrames == lastVisibleFrame - firstVisibleFrame + 1
    IN [ch \in Chans |->
          [count \in 1 .. numVisibleFrames |->
              [frame |-> firstVisibleFrame + count - 1,
               x |-> (firstVisibleFrame + count - 1) * w,
               y |-> 0 - buf[ch][firstVisibleFrame + count - 1]]]]
NoPoints == [ch \in Chans |-> <<>>]

\* the bins whose cached min and max the LOW and HIGH loops read
BinsRead(left, right, z, nb) ==
    FirstVisibleBin(left, z) .. LastVisibleBin(right, z, nb)

\* ------------------------------------------------------------ renderer
\* What the last paint did: the scale factor and cached range it found,
\* whether it reset the bins, the cached range on entry to the draw
\* function, the exposed rectangle, the visible range, the (channel, bin)
\* pairs it queried, the bins whose min and max it read and the points
\* drawn from raw samples.
NoPaint == [prevZ |-> Unset, reset |-> FALSE,
            beforeFirst |-> NOT_SET, beforeLast |-> NOT_SET,
            entryFirst |-> NOT_SET, entryLast |-> NOT_SET,
            left |-> 0, right |-> 0,
            fv |-> 0, lv |-> 0, queries |-> {}, read |-> {}, points |-> NoPoints]

RenderInit ==
    /\ sampleBuffer \in Buffers
    /\ rectWidth \in Widths
    /\ globalScaleFactor = Unset
    /\ numBins = 0
    /\ binSize = [num |-> 0, den |-> 1]
    /\ detailLevel = "INDETERMINATE"
    /\ firstCalculatedBin = NOT_SET
    /\ lastCalculatedBin = NOT_SET
    /\ minSampleValues = [ch \in Chans |-> <<>>]
    /\ maxSampleValues = [ch \in Chans |-> <<>>]
    /\ requeried = {}
    /\ lastPaint = NoPaint

\* writes the record of the cache back to the item's fields
StoreCache(c) ==
    /\ firstCalculatedBin' = c.first
    /\ lastCalculatedBin' = c.last
    /\ minSampleValues' = c.mins
    /\ maxSampleValues' = c.maxs
    /\ numBins' = c.nb
    /\ binSize' = c.bs
    /\ detailLevel' = c.dl
    /\ requeried' = c.rq

\* paint with horizontal scale factor z / ScaleDen and the exposed
\* rectangle [left, right]
Paint(z, left, right) ==
    LET zoomChanged == globalScaleFactor # z
    IN \E c1 \in {IF zoomChanged THEN ResetSampleBins(CacheState, rectWidth, z) ELSE CacheState} :
       \E c2 \in {IF c1.dl # "VERY_HIGH"
                  THEN DrawWaveformFromSampleBins(c1, sampleBuffer, z, left, right)
                  ELSE c1} :
       /\ globalScaleFactor' = z
       /\ StoreCache(c2)
       /\ lastPaint' = [prevZ |-> globalScaleFactor, reset |-> zoomChanged,
                        beforeFirst |-> firstCalculatedBin, beforeLast |-> lastCalculatedBin,
                        entryFirst |-> c1.first, entryLast |-> c1.last,
                        left |-> left, right |-> right,
                        fv |-> FirstVisibleBin(left, z),
                        lv |-> LastVisibleBin(right, z, c1.nb),
                        queries |-> c2.log,
                        read |-> IF c1.dl # "VERY_HIGH"
                                 THEN BinsRead(left, right, z, c1.nb) ELSE {},
                        points |-> IF c1.dl # "VERY_HIGH" THEN NoPoints
                                   ELSE DrawWaveformFromSamples(sampleBuffer, rectWidth, left, right)]
       /\ emitted' = IF zoomChanged THEN ResetSignals(c1.bs) ELSE <<>>
       /\ lastOp' = "paint"
       /\ UNCHANGED <<sampleBuffer, rectWidth>>
       /\ UNCHANGED dragOnly

\* a variant that resets the bins whether or not a paint has set the scale
SetRect_Always(w) ==
    \E c1 \in {ResetSampleBins(CacheState, w, globalScaleFactor)} :
       /\ rectWidth' = w
       /\ StoreCache(c1)
       /\ emitted' = ResetSignals(c1.bs)
       /\ lastOp' = "setRect"
       /\ UNCHANGED <<sampleBuffer, globalScaleFactor, lastPaint>>
       /\ UNCHANGED dragOnly
SetRect(w) ==
    LET established == globalScaleFactor # Unset
    IN \E c1 \in {IF established
                  THEN ResetSampleBins(CacheState, w, globalScaleFactor)
                  ELSE CacheState} :
       /\ rectWidth' = w
       /\ StoreCache(c1)
       /\ emitted' = IF established THEN ResetSignals(c1.bs) ELSE <<>>
       /\ lastOp' = "setRect"
       /\ UNCHANGED <<sampleBuffer, globalScaleFactor, lastPaint>>
       /\ UNCHANGED dragOnly

PaintAny ==
    \E z \in ZoomNums : \E left \in 0 .. rectWidth :
        \E right \in left .. rectWidth : Paint(z, left, right)

SetRectAny == \E w \in Widths : SetRect(w)

\* ------------------------------------------------------ the scene's items
NumItems == 3
MaxStep == 1
MaxOvershoot == 1
Items == 1 .. NumItems
\* stands for a scene item that is not a waveform item
NonWave == 0
ItemWidth(i) == IF i % 2 = 1 THEN 3 ELSE 4

RECURSIVE SumWidths(_)
SumWidths(S) ==
    IF S = {} THEN 0
    ELSE LET i == CHOOSE j \in S : TRUE IN ItemWidth(i) + SumWidths(S \ {i})
SceneWidth == SumWidths(Items)

\* WaveGraphicsScene::getSelectedWaveforms: the selected items sorted by
\* order position
SelectedWaveforms(sel, op) ==
    [k \in 1 .. Cardinality(sel) |->
        CHOOSE i \in sel : Cardinality({j \in sel : op[j] < op[i]}) = k - 1]

\* the x at which the scene lays out the item at its order position
SlotX(op, i) == SumWidths({j \in Items : op[j] < op[i]})

\* a variant that sums the widths on the wrong sides
ItemChangeX_Swapped(i, x, sel, op) ==
    LET minLeft == IF i \in sel
                   THEN SumWidths({j \in sel : op[i] < op[j]}) ELSE 0
        minRight == IF i \in sel
                    THEN SumWidths({j \in sel : op[i] > op[j]}) ELSE 0
        newPosRightEdge == x + ItemWidth(i) - 1
    IN IF x < minLeft THEN minLeft
       ELSE IF newPosRightEdge > SceneWidth - minRight
            THEN SceneWidth - minRight - ItemWidth(i)
            ELSE x
\* a variant that clamps to the scene only
ItemChangeX_NoGroup(i, x, sel, op) ==
    LET newPosRightEdge == x + ItemWidth(i) - 1
    IN IF x < 0 THEN 0
       ELSE IF newPosRightEdge > SceneWidth
            THEN SceneWidth - ItemWidth(i)
            ELSE x
\* itemChange( ItemPositionChange ): the x of the position returned for
\* item i when x is proposed
ItemChangeX(i, x, sel, op) ==
    LET minLeft == IF i \in sel
                   THEN SumWidths({j \in sel : op[i] > op[j]}) ELSE 0
        minRight == IF i \in sel
                    THEN SumWidths({j \in sel : op[i] < op[j]}) ELSE 0
        newPosRightEdge == x + ItemWidth(i) - 1
    IN IF x < minLeft THEN minLeft
       ELSE IF newPosRightEdge > SceneWidth - minRight
            THEN SceneWidth - minRight - ItemWidth(i)
            ELSE x

\* the y every waveform item is kept at
BpmRuler_HEIGHT == 18
\* a variant that pins y for the items of a selected group only
ItemChange_PinSelected(i, pos, sel, op, det) ==
    IF i \notin det
    THEN [x |-> ItemChangeX(i, pos.x, sel, op),
          y |-> IF i \in sel THEN BpmRuler_HEIGHT ELSE pos.y]
    ELSE pos
\* itemChange( ItemPositionChange, pos ) of item i: the position returned;
\* det holds the items that are in no scene
ItemChange(i, pos, sel, op, det) ==
    IF i \notin det
    THEN [x |-> ItemChangeX(i, pos.x, sel, op), y |-> BpmRuler_HEIGHT]
    ELSE pos

\* QGraphicsItem::mouseMoveEvent: every selected item is moved to its
\* position at press plus the pointer's offset, through itemChange
MoveSelected(xs, sel, op, off) ==
    [i \in Items |-> IF i \in sel THEN ItemChangeX(i, pressX[i] + off, sel, op) ELSE xs[i]]

\* scene->items( point ).last(): the lowest item at scene x px.  An
\* unselected waveform lies below a selected one; an item of another type
\* may lie below both.
WaveformsAt(px, xs, S) == {i \in S : xs[i] <= px /\ px < xs[i] + ItemWidth(i)}
ItemsAtLast(px, xs, sel) ==
    {NonWave} \cup
    (IF WaveformsAt(px, xs, Items \ sel) # {}
     THEN WaveformsAt(px, xs, Items \ sel)
     ELSE WaveformsAt(px, xs, sel))

\* the scene's slot for orderPosIsChanging: the selected items shift by
\* numPlacesMoved, the items they pass shift the other way
ReorderWaveformItems(op, positions, n) ==
    LET moved == {i \in Items : \E k \in 1 .. Len(positions) : positions[k] = op[i]}
        count == Cardinality(moved)
        lo == positions[1]
        hi == positions[Len(positions)]
    IN [i \in Items |->
          IF i \in moved THEN op[i] + n
          ELSE IF n < 0 /\ lo + n <= op[i] /\ op[i] < lo THEN op[i] + count
          ELSE IF n > 0 /\ hi < op[i] /\ op[i] <= hi + n THEN op[i] - count
          ELSE op[i]]

\* the list of order positions mouseMoveEvent collects from selectedItems
OrderPositions(selSeq, op) == [k \in 1 .. Len(selSeq) |-> op[selSeq[k]]]

\* a variant that accepts an occupant with the same order position
LeftProposal_Le(this, otherItem, selSeq, xs, op) ==
    LET leftmost == selSeq[1]
        leftmostX == xs[leftmost]
        leftmostOrderPos == op[leftmost]
    IN IF otherItem # this /\ otherItem # NonWave
       THEN IF op[otherItem] <= leftmostOrderPos
            THEN IF 2 * leftmostX < 2 * xs[otherItem] + ItemWidth(otherItem)
                 THEN <<Signal("orderPosIsChanging", OrderPositions(selSeq, op),
                               op[otherItem] - leftmostOrderPos)>>
                 ELSE <<>>
            ELSE <<>>
       ELSE <<>>
\* a variant without the test of the occupant's order position
LeftProposal_NoOrderTest(this, otherItem, selSeq, xs, op) ==
    LET leftmost == selSeq[1]
        leftmostX == xs[leftmost]
        leftmostOrderPos == op[leftmost]
    IN IF otherItem # this /\ otherItem # NonWave
       THEN IF 2 * leftmostX < 2 * xs[otherItem] + ItemWidth(otherItem)
            THEN <<Signal("orderPosIsChanging", OrderPositions(selSeq, op),
                          op[otherItem] - leftmostOrderPos)>>
            ELSE <<>>
       ELSE <<>>
\* a variant that measures the displacement from the rightmost selected item
LeftProposal_FromRightmost(this, otherItem, selSeq, xs, op) ==
    LET leftmost == selSeq[1]
        leftmostX == xs[leftmost]
        leftmostOrderPos == op[leftmost]
    IN IF otherItem # this /\ otherItem # NonWave
       THEN IF op[otherItem] < leftmostOrderPos
            THEN IF 2 * leftmostX < 2 * xs[otherItem] + ItemWidth(otherItem)
                 THEN <<Signal("orderPosIsChanging", OrderPositions(selSeq, op),
                               op[otherItem] - op[selSeq[Len(selSeq)]])>>
                 ELSE <<>>
            ELSE <<>>
       ELSE <<>>
\* the leftward branch of mouseMoveEvent: the proposal it emits, if any,
\* when item this is dragged and otherItem lies at the leftmost selected
\* item's scene position
LeftProposal(this, otherItem, selSeq, xs, op) ==
    LET leftmost == selSeq[1]
        leftmostX == xs[leftmost]
        leftmostOrderPos == op[leftmost]
    IN IF otherItem # this /\ otherItem # NonWave
       THEN IF op[otherItem] < leftmostOrderPos
            THEN IF 2 * leftmostX < 2 * xs[otherItem] + ItemWidth(otherItem)
                 THEN <<Signal("orderPosIsChanging", OrderPositions(selSeq, op),
                               op[otherItem] - leftmostOrderPos)>>
                 ELSE <<>>
            ELSE <<>>
       ELSE <<>>

\* the rightward branch of mouseMoveEvent
RightEdge(selSeq, xs) ==
    xs[selSeq[Len(selSeq)]] + ItemWidth(selSeq[Len(selSeq)]) - 1
\* a variant that measures the displacement from the leftmost selected item
RightProposal_FromLeftmost(this, otherItem, selSeq, xs, op) ==
    LET rightmost == selSeq[Len(selSeq)]
        rightmostOrderPos == op[rightmost]
        rightEdge == RightEdge(selSeq, xs)
    IN IF otherItem # this /\ otherItem # NonWave
       THEN IF op[otherItem] > rightmostOrderPos
            THEN IF 2 * rightEdge > 2 * xs[otherItem] + ItemWidth(otherItem)
                 THEN <<Signal("orderPosIsChanging", OrderPositions(selSeq, op),
                               op[otherItem] - op[selSeq[1]])>>
                 ELSE <<>>
            ELSE <<>>
       ELSE <<>>
RightProposal(this, otherItem, selSeq, xs, op) ==
    LET rightmost == selSeq[Len(selSeq)]
        rightmostOrderPos == op[rightmost]
        rightEdge == RightEdge(selSeq, xs)
    IN IF otherItem # this /\ otherItem # NonWave
       THEN IF op[otherItem] > rightmostOrderPos
            THEN IF 2 * rightEdge > 2 * xs[otherItem] + ItemWidth(otherItem)
                 THEN <<Signal("orderPosIsChanging", OrderPositions(selSeq, op),
                               op[otherItem] - rightmostOrderPos)>>
                 ELSE <<>>
            ELSE <<>>
       ELSE <<>>

\* a variant whose displacement is snapshot minus current
ReleaseSignals_Negated(this, selSeq, op, before) ==
    LET numPlacesMoved == before[this] - op[this]
    IN (IF before[this] # op[this]
        THEN <<Signal("orderPosHasChanged",
                      [k \in 1 .. Len(selSeq) |-> op[selSeq[k]] - numPlacesMoved],
                      numPlacesMoved)>>
        ELSE <<>>)
       \o [k \in 1 .. Len(selSeq) |-> Signal("finishedMoving", <<op[selSeq[k]]>>, 0)]
\* a variant that reports finishedMoving only after a reorder
ReleaseSignals_OnlyWhenMoved(this, selSeq, op, before) ==
    LET numPlacesMoved == op[this] - before[this]
    IN IF before[this] # op[this]
       THEN <<Signal("orderPosHasChanged",
                     [k \in 1 .. Len(selSeq) |-> op[selSeq[k]] - numPlacesMoved],
                     numPlacesMoved)>>
            \o [k \in 1 .. Len(selSeq) |-> Signal("finishedMoving", <<op[selSeq[k]]>>, 0)]
       ELSE <<>>
\* the signals mouseReleaseEvent emits, in order
ReleaseSignals(this, selSeq, op, before) ==
    LET numPlacesMoved == op[this] - before[this]
    IN (IF before[this] # op[this]
        THEN <<Signal("orderPosHasChanged",
                      [k \in 1 .. Len(selSeq) |-> op[selSeq[k]] - numPlacesMoved],
                      numPlacesMoved)>>
        ELSE <<>>)
       \o [k \in 1 .. Len(selSeq) |-> Signal("finishedMoving", <<op[selSeq[k]]>>, 0)]

\* What the last pointer move saw before any slot ran: its direction, the
\* item found under the leading edge with its order position and twice
\* its midpoint, the order position and x of the leading edge, and the
\* selected items' order positions.  After a release: the released item,
\* its order position at press and those of the selected items.
NoMove == [dx |-> 0, other |-> NonWave, otherOrderPos |-> 0, otherMid2 |-> 0,
           edgeOrderPos |-> 0, edgeX |-> 0, positions |-> <<>>]
NoPress == [i \in Items |-> 0]

\* The last position-change request: the item, the proposed position,
\* whether the item was in a scene and selected, and the position returned.
NoChange == [item |-> NonWave, x |-> 0, y |-> 0, inScene |-> FALSE,
             isSelected |-> FALSE, ret |-> [x |-> 0, y |-> 0]]

DragInit ==
    /\ orderPos = [i \in Items |-> i - 1]
    /\ itemX = [i \in Items |-> SumWidths(1 .. (i - 1))]
    /\ selected = {}
    /\ orderPosBeforeMove = [i \in Items |-> NOT_SET]
    /\ grabber = NonWave
    /\ offset = 0
    /\ pressX = NoPress
    /\ pressOrder = NoPress
    /\ lastMove = NoMove
    /\ movable = TRUE
    /\ selectable = TRUE
    /\ accepted = TRUE
    /\ detached = {}
    /\ lastChange = NoChange

\* the view's rubber band selects the items at order positions lo .. hi
\* (none when lo > hi)
SelectBlock(lo, hi) ==
    /\ grabber = NonWave
    /\ selectable
    /\ selected' = {i \in Items \ detached : lo <= orderPos[i] /\ orderPos[i] <= hi}
    /\ selected' # selected
    /\ emitted' = <<>>
    /\ lastOp' = "select"
    /\ lastMove' = NoMove
    /\ accepted' = TRUE
    /\ UNCHANGED <<orderPos, itemX, orderPosBeforeMove, grabber, offset, pressX, pressOrder>>
    /\ lastChange' = NoChange
    /\ UNCHANGED <<movable, selectable, detached>>
    /\ UNCHANGED renderOnly

\* the view switches its interaction mode and with it the ItemIsMovable and
\* ItemIsSelectable flags of the items; an item that stops being selectable
\* is deselected
SetFlags(mv, sl) ==
    /\ grabber = NonWave
    /\ <<mv, sl>> # <<movable, selectable>>
    /\ movable' = mv
    /\ selectable' = sl
    /\ selected' = IF sl THEN selected ELSE {}
    /\ emitted' = <<>>
    /\ lastOp' = "flags"
    /\ lastMove' = NoMove
    /\ accepted' = TRUE
    /\ UNCHANGED <<orderPos, itemX, orderPosBeforeMove, grabber, offset, pressX, pressOrder>>
    /\ UNCHANGED <<detached, lastChange>>
    /\ UNCHANGED renderOnly

\* the scene's owner takes the unselected item i out of the scene, or puts
\* it back
RemoveItem(i) ==
    /\ grabber = NonWave
    /\ i \notin detached /\ i \notin selected
    /\ detached' = detached \cup {i}
    /\ emitted' = <<>>
    /\ lastOp' = "removeItem"
    /\ lastChange' = NoChange
    /\ UNCHANGED <<orderPos, itemX, selected, orderPosBeforeMove, grabber, offset,
                   pressX, pressOrder, lastMove, movable, selectable, accepted>>
    /\ UNCHANGED renderOnly
AddItem(i) ==
    /\ grabber = NonWave
    /\ i \in detached
    /\ detached' = detached \ {i}
    /\ emitted' = <<>>
    /\ lastOp' = "addItem"
    /\ lastChange' = NoChange
    /\ UNCHANGED <<orderPos, itemX, selected, orderPosBeforeMove, grabber, offset,
                   pressX, pressOrder, lastMove, movable, selectable, accepted>>
    /\ UNCHANGED renderOnly

\* the y of the positions a caller may propose
ProposedYs == {BpmRuler_HEIGHT - 1, BpmRuler_HEIGHT, BpmRuler_HEIGHT + 1}
\* itemChange( ItemPositionChange ) on item i with the position (x, y)
\* proposed by QGraphicsItem::setPos; the caller stores what it returns
PositionChange(i, x, y) ==
    /\ grabber = NonWave
    /\ lastChange' = [item |-> i, x |-> x, y |-> y,
                      inScene |-> i \notin detached, isSelected |-> i \in selected,
                      ret |-> ItemChange(i, [x |-> x, y |-> y], selected, orderPos, detached)]
    /\ emitted' = <<>>
    /\ lastOp' = "itemChange"
    /\ UNCHANGED <<orderPos, itemX, selected, orderPosBeforeMove, grabber, offset,
                   pressX, pressOrder, lastMove, movable, selectable, accepted, detached>>
    /\ UNCHANGED renderOnly

\* the mouse buttons of a press
Buttons == {"LeftButton", "RightButton"}
\* a variant that lets the right button through
PressBranch_AnyButton(sl, mv, button) ==
    IF sl
    THEN IF mv THEN "drag" ELSE "ignore"
    ELSE "clicked"
\* the branch mousePressEvent takes on the item's flags and the button
PressBranch(sl, mv, button) ==
    IF sl
    THEN IF mv
         THEN IF button = "RightButton" THEN "ignore" ELSE "drag"
         ELSE "ignore"
    ELSE "clicked"

\* mousePressEvent on item i.  On the drag branch
\* QGraphicsItem::mousePressEvent accepts the event, makes the item the
\* mouse grabber and, unless the item is already selected, selects it
\* alone; on the other branches the event is ignored.  The clicked signal
\* carries the item.
MousePress(i, button) ==
    /\ grabber = NonWave
    /\ \E branch \in {PressBranch(selectable, movable, button)} :
          IF branch = "drag"
          THEN /\ selected' = IF i \in selected THEN selected ELSE {i}
               /\ orderPosBeforeMove' = [orderPosBeforeMove EXCEPT ![i] = orderPos[i]]
               /\ grabber' = i
               /\ pressX' = itemX
               /\ pressOrder' = orderPos
               /\ emitted' = <<>>
               /\ accepted' = TRUE
          ELSE /\ emitted' = IF branch = "clicked" THEN <<Signal("clicked", <<i>>, 0)>> ELSE <<>>
               /\ accepted' = FALSE
               /\ UNCHANGED <<selected, orderPosBeforeMove, grabber, pressX, pressOrder>>
    /\ offset' = 0
    /\ lastOp' = "press"
    /\ lastMove' = NoMove
    /\ UNCHANGED <<orderPos, itemX, movable, selectable, detached, lastChange>>
    /\ UNCHANGED renderOnly

\* mouseMoveEvent on the dragged item: the pointer moved by dx and the
\* scene answers the item lookup with otherItem.  The pointer drags the
\* item at most MaxOvershoot past either edge of the scene.
MouseMove(dx, otherItem) ==
    /\ grabber # NonWave
    /\ pressX[grabber] + offset + dx >= 0 - MaxOvershoot
    /\ pressX[grabber] + offset + dx <= SceneWidth - ItemWidth(grabber) + MaxOvershoot
    /\ \E xs \in {MoveSelected(itemX, selected, orderPos, offset + dx)} :
       \E selSeq \in {SelectedWaveforms(selected, orderPos)} :
       \E proposal \in {IF dx < 0 THEN LeftProposal(grabber, otherItem, selSeq, xs, orderPos)
                        ELSE IF dx > 0 THEN RightProposal(grabber, otherItem, selSeq, xs, orderPos)
                        ELSE <<>>} :
       \E op2 \in {IF proposal # <<>>
                   THEN ReorderWaveformItems(orderPos, proposal[1].positions, proposal[1].n)
                   ELSE orderPos} :
       LET edge == IF dx < 0 THEN selSeq[1] ELSE selSeq[Len(selSeq)]
           edgeX == IF dx < 0 THEN xs[selSeq[1]] ELSE RightEdge(selSeq, xs)
       IN /\ otherItem \in (IF dx = 0 THEN {NonWave} ELSE ItemsAtLast(edgeX, xs, selected))
          /\ offset' = offset + dx
          /\ emitted' = proposal
          /\ orderPos' = op2
          /\ itemX' = [i \in Items |-> IF i \in selected THEN xs[i] ELSE SlotX(op2, i)]
          /\ lastMove' = [dx |-> dx, other |-> otherItem,
                          otherOrderPos |-> IF otherItem = NonWave THEN 0 ELSE orderPos[otherItem],
                          otherMid2 |-> IF otherItem = NonWave THEN 0
                                        ELSE 2 * xs[otherItem] + ItemWidth(otherItem),
                          edgeOrderPos |-> orderPos[edge], edgeX |-> edgeX,
                          positions |-> OrderPositions(selSeq, orderPos)]
    /\ lastOp' = "move"
    /\ accepted' = TRUE
    /\ UNCHANGED <<selected, orderPosBeforeMove, grabber, pressX, pressOrder>>
    /\ UNCHANGED <<movable, selectable, detached, lastChange>>
    /\ UNCHANGED renderOnly

\* mouseReleaseEvent on the dragged item; QGraphicsItem::mouseReleaseEvent
\* leaves only this item selected when the pointer is where it was pressed
MouseRelease(sameSpot) ==
    /\ grabber # NonWave
    /\ sameSpot => offset = 0
    /\ LET sel == IF sameSpot THEN {grabber} ELSE selected
           selSeq == SelectedWaveforms(sel, orderPos)
       IN /\ selected' = sel
          /\ emitted' = ReleaseSignals(grabber, selSeq, orderPos, orderPosBeforeMove)
          /\ lastMove' = [NoMove EXCEPT !.other = grabber,
                                        !.otherOrderPos = pressOrder[grabber],
                                        !.positions = [k \in 1 .. Len(selSeq) |-> pressOrder[selSeq[k]]]]
    /\ itemX' = [i \in Items |-> SlotX(orderPos, i)]
    /\ grabber' = NonWave
    /\ offset' = 0
    /\ pressX' = NoPress
    /\ pressOrder' = NoPress
    /\ lastOp' = "release"
    /\ accepted' = TRUE
    /\ UNCHANGED <<orderPos, orderPosBeforeMove, movable, selectable, detached, lastChange>>
    /\ UNCHANGED renderOnly

SelectAny == \E lo \in 0 .. NumItems : \E hi \in (lo - 1) .. (NumItems - 1) : SelectBlock(lo, hi)
SetFlagsAny == \E mv \in BOOLEAN : \E sl \in BOOLEAN : SetFlags(mv, sl)
MousePressAny == \E i \in Items : \E button \in Buttons : MousePress(i, button)
MouseMoveAny == \E dx \in (0 - MaxStep) .. MaxStep : \E otherItem \in Items \cup {NonWave} :
                    MouseMove(dx, otherItem)
MouseReleaseAny == \E sameSpot \in BOOLEAN : MouseRelease(sameSpot)
RemoveItemAny == \E i \in Items : RemoveItem(i)
AddItemAny == \E i \in Items : AddItem(i)
PositionChangeAny ==
    \E i \in Items : \E x \in (0 - MaxOvershoot) .. (SceneWidth + MaxOvershoot) :
        \E y \in ProposedYs : PositionChange(i, x, y)

\* ---------------------------------------------------- specifications
Init == RenderInit /\ DragInit /\ emitted = <<>> /\ lastOp = "init"
RenderNext == PaintAny \/ SetRectAny
DragNext == SelectAny \/ SetFlagsAny \/ MousePressAny \/ MouseMoveAny \/ MouseReleaseAny
\* the renderer of one item, the scene at rest
RenderSpec == Init /\ [][RenderNext]_vars
\* the drag-reorder controller, the item not yet painted
DragStart ==
    /\ Init
    /\ sampleBuffer = BufferOf(1, 0)
    /\ rectWidth = 1
DragSpec == DragStart /\ [][DragNext]_vars
\* position-change requests on the items of a scene at rest
ClampNext == SelectAny \/ RemoveItemAny \/ AddItemAny \/ PositionChangeAny
ClampSpec == DragStart /\ [][ClampNext]_vars

\* ------------------------------------------------------------- claims
PaintedBins == lastOp = "paint" /\ detailLevel \in {"LOW", "HIGH"}
\* the largest k with k * d <= n, for n >= 0 and d > 0
Trunc(n, d) == CHOOSE k \in 0 .. n : k * d <= n /\ (k + 1) * d > n
\* the frames the claim assigns to bin b under width w and scale z / ScaleDen
FramesOfBin(w, z, b) ==
    LET start == Trunc(b * NumFrames * ScaleDen, w * z)
        n == Trunc(NumFrames * ScaleDen, w * z)
    IN {f \in 0 .. (NumFrames - 1) : start <= f /\ f < start + n}
IsMinOf(m, samples, F) == (\A f \in F : m <= samples[f]) /\ (\E f \in F : m = samples[f])
IsMaxOf(m, samples, F) == (\A f \in F : m >= samples[f]) /\ (\E f \in F : m = samples[f])
BinHoldsTrueMinMax(ch, b) ==
    LET F == FramesOfBin(rectWidth, globalScaleFactor, b)
        mn == ArrayGet(minSampleValues[ch], b)
        mx == ArrayGet(maxSampleValues[ch], b)
    IN /\ mn # Stale /\ IsMinOf(mn[1], sampleBuffer[ch], F)
       /\ mx # Stale /\ IsMaxOf(mx[1], sampleBuffer[ch], F)

\* C1: a paint at scale z2 that follows a paint at z1 # z2 stores z2,
\* recomputes numBins, binSize and detailLevel from z2 and the width, enters
\* the draw function with the cached range unset, and every bin it reads
\* was queried by this very paint; and every bin any paint reads holds the
\* min/max under the scale and width in force, never one of an earlier scale.
C1_ZoomChangeResets ==
    lastOp = "paint" =>
        /\ \A b \in lastPaint.read : \A ch \in Chans : BinHoldsTrueMinMax(ch, b)
        /\ (lastPaint.prevZ # Unset /\ lastPaint.prevZ # globalScaleFactor)
           => /\ lastPaint.reset
              /\ numBins = Trunc(rectWidth * globalScaleFactor, ScaleDen)
              /\ binSize.num * rectWidth * globalScaleFactor = binSize.den * NumFrames * ScaleDen
              /\ detailLevel = DetailLevelOf(binSize)
              /\ lastPaint.entryFirst = NOT_SET /\ lastPaint.entryLast = NOT_SET
              /\ \A b \in lastPaint.read : \A ch \in Chans : <<ch, b>> \in lastPaint.queries
C1_Witness ==
    /\ lastOp = "paint" /\ lastPaint.prevZ # Unset /\ lastPaint.prevZ # globalScaleFactor
    /\ lastPaint.beforeFirst # NOT_SET /\ lastPaint.beforeFirst <= lastPaint.beforeLast
    /\ Cardinality(lastPaint.read) >= 2

\* C2: the cached range is unset or 0 <= first <= last <= numBins - 1.
C2_CacheRangeValid ==
    \/ firstCalculatedBin = NOT_SET /\ lastCalculatedBin = NOT_SET
    \/ /\ 0 <= firstCalculatedBin /\ firstCalculatedBin <= lastCalculatedBin
       /\ lastCalculatedBin <= numBins - 1

\* C3: at LOW or HIGH detail every bin a paint reads lies in the cached
\* range and was filled, on every channel, since the last reset.
C3_ReadsArePopulated ==
    PaintedBins =>
        \A b \in lastPaint.read :
            /\ firstCalculatedBin <= b /\ b <= lastCalculatedBin
            /\ \A ch \in Chans : /\ ArrayGet(minSampleValues[ch], b) # Stale
                                 /\ ArrayGet(maxSampleValues[ch], b) # Stale
C3_Witness ==
    /\ PaintedBins /\ ~lastPaint.reset
    /\ lastPaint.beforeFirst # NOT_SET
    /\ lastPaint.queries # {}
    /\ \E b \in lastPaint.read : <<0, b>> \notin lastPaint.queries

\* C4: between two resets no (channel, bin) is queried twice, and a paint
\* whose visible range lies inside the cached range queries nothing and
\* leaves the cached range as it was.
C4_NoRequery ==
    /\ requeried = {}
    /\ (/\ PaintedBins /\ ~lastPaint.reset
        /\ lastPaint.beforeFirst # NOT_SET /\ lastPaint.beforeLast # NOT_SET
        /\ lastPaint.fv <= lastPaint.lv
        /\ lastPaint.beforeFirst <= lastPaint.fv /\ lastPaint.lv <= lastPaint.beforeLast)
       => /\ lastPaint.queries = {}
          /\ firstCalculatedBin = lastPaint.beforeFirst
          /\ lastCalculatedBin = lastPaint.beforeLast
C4_Witness ==
    /\ PaintedBins /\ ~lastPaint.reset
    /\ lastPaint.beforeFirst # NOT_SET /\ lastPaint.beforeLast # NOT_SET
    /\ lastPaint.fv < lastPaint.lv
    /\ lastPaint.beforeFirst < lastPaint.fv /\ lastPaint.lv <= lastPaint.beforeLast
    /\ lastPaint.queries = {}

\* C5: every cached bin holds, on every channel, the true minimum and
\* maximum of the int(binSize) frames from frame int(b * binSize) on.
C5_BinsHoldTrueMinMax ==
    (globalScaleFactor # Unset /\ detailLevel \in {"LOW", "HIGH"}
     /\ firstCalculatedBin # NOT_SET /\ lastCalculatedBin # NOT_SET)
    => \A b \in firstCalculatedBin .. lastCalculatedBin : \A ch \in Chans :
           BinHoldsTrueMinMax(ch, b)
C5_Witness ==
    /\ detailLevel \in {"LOW", "HIGH"}
    /\ firstCalculatedBin = 0 /\ lastCalculatedBin = numBins - 1 /\ numBins >= 3
    /\ binSize.num % binSize.den # 0
    /\ \A ch \in Chans : \E b \in 0 .. (numBins - 1) :
           minSampleValues[ch][b + 1] # maxSampleValues[ch][b + 1]

\* C6: detailLevel is VERY_HIGH iff binSize <= cutoff_veryhigh, HIGH iff
\* cutoff_veryhigh < binSize <= cutoff_high, LOW otherwise; and against the
\* level of any other bin size it is monotonic (a smaller bin size never
\* gets a coarser level).
LevelRank(dl) == CASE dl = "VERY_HIGH" -> 0 [] dl = "HIGH" -> 1 [] dl = "LOW" -> 2
BinSizeLe(a, b) == a.num * b.den <= b.num * a.den
C6_DetailLevelOfBinSize ==
    globalScaleFactor # Unset =>
        /\ (detailLevel = "VERY_HIGH") <=>
               (binSize.num * CutoffDen <= DETAIL_LEVEL_VERY_HIGH_CUTOFF * binSize.den)
        /\ (detailLevel = "HIGH") <=>
               (/\ binSize.num * CutoffDen > DETAIL_LEVEL_VERY_HIGH_CUTOFF * binSize.den
                /\ binSize.num * CutoffDen <= DETAIL_LEVEL_HIGH_CUTOFF * binSize.den)
        /\ (detailLevel = "LOW") <=>
               (binSize.num * CutoffDen > DETAIL_LEVEL_HIGH_CUTOFF * binSize.den)
        /\ \A w \in Widths : \A z \in ZoomNums :
               LET other == BinSizeOf(w, z)
               IN /\ BinSizeLe(binSize, other)
                         => LevelRank(detailLevel) <= LevelRank(DetailLevelOf(other))
                  /\ BinSizeLe(other, binSize)
                         => LevelRank(DetailLevelOf(other)) <= LevelRank(detailLevel)
C6_Witness ==
    /\ globalScaleFactor # Unset
    /\ detailLevel = "HIGH"
    /\ lastOp = "setRect"
    /\ \E w \in Widths : \E z \in ZoomNums : DetailLevelOf(BinSizeOf(w, z)) = "LOW"
    /\ \E w \in Widths : \E z \in ZoomNums : DetailLevelOf(BinSizeOf(w, z)) = "VERY_HIGH"

\* the selected item with the smallest and with the greatest order position
LeftmostSelected == CHOOSE i \in selected : \A j \in selected : orderPos[i] <= orderPos[j]
RightmostSelected == CHOOSE i \in selected : \A j \in selected : orderPos[i] >= orderPos[j]
\* the selected items hold exactly the carried positions shifted by n
ShiftedAreSelected(positions, n) ==
    {positions[k] + n : k \in 1 .. Len(positions)} = {orderPos[i] : i \in selected}

\* C7: on a move to the left a proposal is emitted iff the item found at
\* the leftmost selected item's left edge is a waveform item other than the
\* dragged one, has a strictly smaller order position, and the left edge is
\* left of its midpoint; it carries the selected items' order positions and
\* numPlacesMoved = occupant's order position - leftmost's.
C7_LeftwardProposal ==
    (lastOp = "move" /\ lastMove.dx < 0) =>
        LET swap == /\ lastMove.other # NonWave /\ lastMove.other # grabber
                    /\ lastMove.otherOrderPos < lastMove.edgeOrderPos
                    /\ 2 * lastMove.edgeX < lastMove.otherMid2
            n == lastMove.otherOrderPos - lastMove.edgeOrderPos
        IN /\ lastMove.edgeX = itemX[LeftmostSelected]
           /\ (emitted # <<>>) <=> swap
           /\ swap => /\ emitted = <<Signal("orderPosIsChanging", lastMove.positions, n)>>
                      /\ ShiftedAreSelected(lastMove.positions, n)
                      /\ lastMove.edgeOrderPos = lastMove.positions[1]
                      /\ (lastMove.otherOrderPos = lastMove.edgeOrderPos - 1 => emitted[1].n = -1)
C7_Witness ==
    /\ lastOp = "move" /\ lastMove.dx < 0
    /\ emitted # <<>> /\ emitted[1].n = -1
    /\ Len(emitted[1].positions) = 2
    /\ lastMove.edgeOrderPos = NumItems - 2

\* C8: on a move to the right a proposal is emitted iff the item found at
\* the rightmost selected item's right edge is a waveform item other than
\* the dragged one, has a strictly greater order position, and the right
\* edge is past its midpoint; it carries the selected items' order positions
\* and numPlacesMoved = occupant's order position - rightmost's.
C8_RightwardProposal ==
    (lastOp = "move" /\ lastMove.dx > 0) =>
        LET swap == /\ lastMove.other # NonWave /\ lastMove.other # grabber
                    /\ lastMove.otherOrderPos > lastMove.edgeOrderPos
                    /\ 2 * lastMove.edgeX > lastMove.otherMid2
            n == lastMove.otherOrderPos - lastMove.edgeOrderPos
        IN /\ lastMove.edgeX = itemX[RightmostSelected] + ItemWidth(RightmostSelected) - 1
           /\ (emitted # <<>>) <=> swap
           /\ swap => /\ emitted = <<Signal("orderPosIsChanging", lastMove.positions, n)>>
                      /\ ShiftedAreSelected(lastMove.positions, n)
                      /\ lastMove.edgeOrderPos = lastMove.positions[Len(lastMove.positions)]
C8_Witness ==
    /\ lastOp = "move" /\ lastMove.dx > 0
    /\ emitted # <<>> /\ emitted[1].n = 1
    /\ Len(emitted[1].positions) = 2

\* C9: a release emits orderPosHasChanged iff the released item's order
\* position differs from the one it had at press; the signal carries
\* d = current - snapshot and, per selected item, current - d, which are the
\* selected items' order positions at press and, shifted by d, their final
\* ones.
C9_FinalizedReorder ==
    lastOp = "release" =>
        LET this == lastMove.other
            selSeq == SelectedWaveforms(selected, orderPos)
            d == orderPos[this] - lastMove.otherOrderPos
            finalized == {k \in 1 .. Len(emitted) : emitted[k].sig = "orderPosHasChanged"}
        IN /\ (finalized # {}) <=> (orderPos[this] # lastMove.otherOrderPos)
           /\ orderPosBeforeMove[this] = lastMove.otherOrderPos
           /\ \A k \in finalized :
                  /\ finalized = {k}
                  /\ emitted[k].n = d
                  /\ emitted[k].positions = [j \in 1 .. Len(selSeq) |-> orderPos[selSeq[j]] - d]
                  /\ emitted[k].positions = lastMove.positions
                  /\ ShiftedAreSelected(emitted[k].positions, emitted[k].n)
C9_Witness ==
    /\ lastOp = "release"
    /\ emitted # <<>> /\ emitted[1].sig = "orderPosHasChanged"
    /\ emitted[1].n \in {-2, 2}

\* C10: a release emits exactly one finishedMoving per selected item, with
\* that item's final order position, reorder or not, and after the
\* orderPosHasChanged signal if there is one.
C10_FinishedMoving ==
    lastOp = "release" =>
        LET finished == {k \in 1 .. Len(emitted) : emitted[k].sig = "finishedMoving"}
            finalized == {k \in 1 .. Len(emitted) : emitted[k].sig = "orderPosHasChanged"}
        IN /\ Cardinality(finished) = Cardinality(selected)
           /\ \A i \in selected :
                  Cardinality({k \in finished : emitted[k].positions = <<orderPos[i]>>}) = 1
           /\ \A k \in finalized : \A j \in finished : k < j
C10_Witness ==
    /\ lastOp = "release"
    /\ Cardinality(selected) = 2
    /\ Len(emitted) = 3 /\ emitted[1].sig = "orderPosHasChanged"
    /\ emitted[2].sig = "finishedMoving" /\ emitted[3].sig = "finishedMoving"

\* C11: a press takes the snapshot orderPosBeforeMove = orderPos and starts
\* a drag exactly when the item is selectable and movable and the button is
\* not the right one; every other press is ignored and leaves every
\* snapshot as it was, and it emits clicked exactly when the item is not
\* selectable.
C11_PressSnapshot ==
    [][\A i \in Items : \A button \in Buttons :
          MousePress(i, button) =>
              LET drag == selectable /\ movable /\ button # "RightButton"
              IN /\ drag => /\ orderPosBeforeMove'[i] = orderPos[i]
                            /\ grabber' = i /\ accepted'
                            /\ emitted' = <<>>
                 /\ ~drag => /\ orderPosBeforeMove' = orderPosBeforeMove
                             /\ grabber' = NonWave /\ ~accepted'
                             /\ selected' = selected
                 /\ \A j \in Items \ {i} : orderPosBeforeMove'[j] = orderPosBeforeMove[j]
                 /\ (emitted' = <<Signal("clicked", <<i>>, 0)>>) <=> ~selectable
                 /\ selectable => emitted' = <<>>]_vars
C11_Witness ==
    /\ lastOp = "press" /\ ~accepted
    /\ ~selectable /\ movable
    /\ emitted # <<>> /\ emitted[1].sig = "clicked"
    /\ orderPosBeforeMove[emitted[1].positions[1]] # NOT_SET
    /\ orderPosBeforeMove[emitted[1].positions[1]] # orderPos[emitted[1].positions[1]]

\* the combined width of the selected items other than i whose order
\* position is smaller, and greater, than that of i
SelectedLeftOf(i) == SumWidths({j \in selected \ {i} : orderPos[j] < orderPos[i]})
SelectedRightOf(i) == SumWidths({j \in selected \ {i} : orderPos[j] > orderPos[i]})
ChangedSelected == lastOp = "itemChange" /\ lastChange.inScene /\ lastChange.isSelected

\* C12 as stated: the returned x of a selected item is never less than the
\* combined width of the other selected items with a GREATER order position,
\* and its right edge never exceeds the scene's right edge minus the
\* combined width of the other selected items with a SMALLER order position.
C12_ClampAsStated ==
    ChangedSelected =>
        /\ lastChange.ret.x >= SelectedRightOf(lastChange.item)
        /\ lastChange.ret.x + ItemWidth(lastChange.item) - 1
               <= SceneWidth - SelectedLeftOf(lastChange.item)
\* C12 (amended): the returned x of a selected item is never less than the
\* combined width of the other selected items with a SMALLER order position,
\* and its right edge never exceeds the scene's right edge minus the
\* combined width of the other selected items with a GREATER order position.
C12_ClampBySides ==
    ChangedSelected =>
        /\ lastChange.ret.x >= SelectedLeftOf(lastChange.item)
        /\ lastChange.ret.x + ItemWidth(lastChange.item) - 1
               <= SceneWidth - SelectedRightOf(lastChange.item)
C12_Witness ==
    /\ ChangedSelected
    /\ SelectedLeftOf(lastChange.item) > 0 /\ SelectedRightOf(lastChange.item) > 0
    /\ lastChange.x + ItemWidth(lastChange.item) - 1 > SceneWidth - SelectedRightOf(lastChange.item)
    /\ lastChange.ret.x # lastChange.x

\* C13: a selected item whose other selected items to its left have the
\* combined width W is never returned an x < W, and a proposed x < W is
\* returned as exactly W.
C13_LeftClampExact ==
    ChangedSelected =>
        LET W == SelectedLeftOf(lastChange.item)
        IN /\ lastChange.ret.x >= W
           /\ lastChange.x < W => lastChange.ret.x = W
C13_Witness ==
    /\ ChangedSelected
    /\ Cardinality({j \in selected \ {lastChange.item} :
                        orderPos[j] < orderPos[lastChange.item]}) = 2
    /\ lastChange.x < SelectedLeftOf(lastChange.item)
    /\ lastChange.x > 0
    /\ lastChange.ret.x = SelectedLeftOf(lastChange.item)

\* C18: every position-change request on an item that is in a scene returns
\* y = BpmRuler::HEIGHT, whatever y was proposed, selected or not.
C18_YPinned ==
    (lastOp = "itemChange" /\ lastChange.inScene) => lastChange.ret.y = BpmRuler_HEIGHT
C18_Witness ==
    /\ lastOp = "itemChange" /\ lastChange.inScene /\ ~lastChange.isSelected
    /\ selected # {}
    /\ lastChange.y > BpmRuler_HEIGHT
    /\ lastChange.ret.y = BpmRuler_HEIGHT
    /\ lastChange.ret.x = lastChange.x

\* C14: at VERY_HIGH detail the polyline of each channel visits consecutive
\* frames in increasing order, each once, with y the negated sample value;
\* it visits every frame that lies in the exposed rectangle and none more
\* than one frame outside it; with the whole item exposed it visits exactly
\* the NumFrames frames; the paint queries no min/max and the cached range
\* stays unset.
C14_RawSamplePolyline ==
    (lastOp = "paint" /\ detailLevel = "VERY_HIGH") =>
        /\ lastPaint.queries = {} /\ lastPaint.read = {}
        /\ firstCalculatedBin = NOT_SET /\ lastCalculatedBin = NOT_SET
        /\ \A ch \in Chans :
              LET pts == lastPaint.points[ch]
                  visited == {pts[k].frame : k \in 1 .. Len(pts)}
              IN /\ \A k \in 1 .. Len(pts) :
                        /\ pts[k].frame \in 0 .. (NumFrames - 1)
                        /\ pts[k].y = 0 - sampleBuffer[ch][pts[k].frame]
                        /\ pts[k].x * NumFrames = pts[k].frame * rectWidth * NumFrames
                        /\ k > 1 => pts[k].frame = pts[k - 1].frame + 1
                        /\ (pts[k].frame + 1) * rectWidth > lastPaint.left * NumFrames
                        /\ (pts[k].frame - 1) * rectWidth < lastPaint.right * NumFrames
                 /\ \A f \in 0 .. (NumFrames - 1) :
                        (lastPaint.left * NumFrames <= f * rectWidth
                         /\ f * rectWidth <= lastPaint.right * NumFrames) => f \in visited
                 /\ (lastPaint.left = 0 /\ lastPaint.right = rectWidth)
                        => /\ Len(pts) = NumFrames
                           /\ visited = 0 .. (NumFrames - 1)
C14_Witness ==
    /\ lastOp = "paint" /\ detailLevel = "VERY_HIGH"
    /\ lastPaint.left = 0 /\ lastPaint.right = rectWidth
    /\ lastPaint.beforeFirst # NOT_SET
    /\ \A ch \in Chans :
          /\ Len(lastPaint.points[ch]) = NumFrames
          /\ (\E k \in 1 .. NumFrames : lastPaint.points[ch][k].y > 0)
          /\ (\E j \in 1 .. NumFrames : lastPaint.points[ch][j].y < 0)

\* C16: after a setRect that finds a scale factor established, numBins,
\* binSize and detailLevel are those of the new width and the stored scale,
\* the cached range is unset and a detail-level signal was emitted; a
\* setRect before the first paint changes none of them and emits nothing,
\* and the first paint computes them from the width set last.
FromWidthAndScale ==
    /\ numBins = Trunc(rectWidth * globalScaleFactor, ScaleDen)
    /\ binSize.num * rectWidth * globalScaleFactor = binSize.den * NumFrames * ScaleDen
    /\ detailLevel \in {"VERY_HIGH", "HIGH", "LOW"}
    /\ detailLevel = "VERY_HIGH"
           <=> binSize.num * CutoffDen <= DETAIL_LEVEL_VERY_HIGH_CUTOFF * binSize.den
    /\ detailLevel = "LOW"
           <=> binSize.num * CutoffDen > DETAIL_LEVEL_HIGH_CUTOFF * binSize.den
C16_SetRectResets ==
    /\ lastOp = "setRect" =>
          IF globalScaleFactor # Unset
          THEN /\ FromWidthAndScale
               /\ firstCalculatedBin = NOT_SET /\ lastCalculatedBin = NOT_SET
               /\ emitted # <<>>
          ELSE /\ numBins = 0 /\ detailLevel = "INDETERMINATE"
               /\ binSize = [num |-> 0, den |-> 1]
               /\ \A ch \in Chans : minSampleValues[ch] = <<>> /\ maxSampleValues[ch] = <<>>
               /\ emitted = <<>>
    /\ (lastOp = "paint" /\ lastPaint.prevZ = Unset) =>
          /\ lastPaint.reset
          /\ FromWidthAndScale
          /\ lastPaint.entryFirst = NOT_SET /\ lastPaint.entryLast = NOT_SET
C16_Witness ==
    /\ lastOp = "setRect" /\ globalScaleFactor # Unset
    /\ lastPaint.beforeFirst = NOT_SET /\ lastPaint.queries # {}
    /\ firstCalculatedBin = NOT_SET
    /\ numBins # Trunc(lastPaint.lv + 1, 1) /\ numBins >= 2
    /\ detailLevel = "HIGH"

HasSig(sigs, name) == \E k \in 1 .. Len(sigs) : sigs[k].sig = name
AtMaxDetail(bs) == bs.num * CutoffDen <= DETAIL_LEVEL_MAX_CUTOFF * bs.den
\* C17 as stated: a detail-level signal is emitted exactly when the level it
\* names is entered: sampleDetailLevelReached when detailLevel becomes
\* VERY_HIGH from another level, sampleBinDetailLevelReached when it becomes
\* HIGH or LOW from another level, maxDetailLevelReached when binSize comes
\* to be at or below the max-detail cutoff; a paint without a zoom change
\* emits none.
C17_OnlyOnTransitions ==
    [][lastOp' \in {"paint", "setRect"} =>
          /\ HasSig(emitted', "sampleDetailLevelReached")
                <=> (detailLevel' = "VERY_HIGH" /\ detailLevel # "VERY_HIGH")
          /\ HasSig(emitted', "sampleBinDetailLevelReached")
                <=> (detailLevel' \in {"HIGH", "LOW"} /\ detailLevel' # detailLevel)
          /\ HasSig(emitted', "maxDetailLevelReached")
                <=> (/\ globalScaleFactor' # Unset /\ AtMaxDetail(binSize')
                     /\ ~(globalScaleFactor # Unset /\ AtMaxDetail(binSize)))
          /\ (lastOp' = "paint" /\ globalScaleFactor' = globalScaleFactor) => emitted' = <<>>]_vars
\* C17 (amended): every reset of the bins (a paint that detects a zoom
\* change, a setRect with a scale factor established) emits the signals of
\* the level it sets, also when that level was already in force:
\* sampleDetailLevelReached for VERY_HIGH, followed by maxDetailLevelReached
\* when binSize is at or below the max-detail cutoff, and
\* sampleBinDetailLevelReached for HIGH and LOW; a paint that detects no
\* zoom change, and a setRect before the first paint, emit none.
C17_SignalsOfEveryReset ==
    lastOp \in {"paint", "setRect"} =>
        LET reset == IF lastOp = "paint" THEN lastPaint.reset ELSE globalScaleFactor # Unset
        IN IF ~reset THEN emitted = <<>>
           ELSE /\ detailLevel = "VERY_HIGH" /\ ~AtMaxDetail(binSize)
                     => emitted = <<Signal("sampleDetailLevelReached", <<>>, 0)>>
                /\ detailLevel = "VERY_HIGH" /\ AtMaxDetail(binSize)
                     => emitted = <<Signal("sampleDetailLevelReached", <<>>, 0),
                                    Signal("maxDetailLevelReached", <<>>, 0)>>
                /\ detailLevel \in {"HIGH", "LOW"}
                     => emitted = <<Signal("sampleBinDetailLevelReached", <<>>, 0)>>
C17_Witness ==
    /\ lastOp = "setRect" /\ globalScaleFactor # Unset
    /\ lastPaint.reset /\ lastPaint.prevZ # Unset
    /\ numBins = Trunc(lastPaint.lv + 1, 1) /\ lastPaint.right = rectWidth
    /\ detailLevel = "HIGH"
    /\ emitted = <<Signal("sampleBinDetailLevelReached", <<>>, 0)>>

\* C19 as stated: at LOW or HIGH detail every bin a paint queries lies in
\* that paint's visible range (taken for the paints whose visible range
\* holds a bin at all and that find the cache empty or a cached range with
\* first <= last).
C19_QueriesInVisibleRange ==
    (/\ PaintedBins /\ lastPaint.fv <= lastPaint.lv
     /\ (lastPaint.entryFirst = NOT_SET \/ lastPaint.entryFirst <= lastPaint.entryLast)) =>
        \A q \in lastPaint.queries : lastPaint.fv <= q[2] /\ q[2] <= lastPaint.lv
\* C19 (amended): at LOW or HIGH detail a paint that finds the cache empty
\* queries exactly the visible range; one that finds the range
\* [first, last] cached queries exactly the bins [firstVisible, first - 1]
\* and [last + 1, lastVisible], on every channel, none of them inside the
\* cached range and all of them between the cached and the visible range
\* or inside the visible range.
C19_QueriesOutsideCache ==
    PaintedBins =>
        LET queriedBins == {q[2] : q \in lastPaint.queries}
            first == lastPaint.entryFirst
            last == lastPaint.entryLast
        IN /\ lastPaint.queries = Chans \X queriedBins
           /\ IF first = NOT_SET \/ last = NOT_SET
              THEN queriedBins = lastPaint.fv .. lastPaint.lv
              ELSE /\ queriedBins = (lastPaint.fv .. (first - 1)) \cup ((last + 1) .. lastPaint.lv)
                   /\ \A b \in queriedBins :
                          /\ ~(first <= b /\ b <= last)
                          /\ Min2(lastPaint.fv, first) <= b /\ b <= Max2(lastPaint.lv, last)
C19_Witness ==
    /\ PaintedBins /\ ~lastPaint.reset
    /\ lastPaint.entryFirst # NOT_SET /\ lastPaint.entryFirst <= lastPaint.entryLast
    /\ lastPaint.entryLast + 1 < lastPaint.fv /\ lastPaint.fv <= lastPaint.lv
    /\ \E q \in lastPaint.queries : q[2] < lastPaint.fv

\* C20: with numBins >= 1 the frames findMinMax is asked for bin b of
\* 0 .. numBins - 1 are frames of the buffer: 0 <= int(b * binSize) and
\* int(b * binSize) + int(binSize) <= numFrames; and every bin queried is
\* one of 0 .. numBins - 1.
C20_FramesInBuffer ==
    (globalScaleFactor # Unset /\ numBins >= 1) =>
        /\ \A b \in 0 .. (numBins - 1) :
              /\ 0 <= BinStartFrame(binSize, b)
              /\ BinStartFrame(binSize, b) + BinNumFrames(binSize) <= NumFrames
        /\ lastOp = "paint" =>
              \A q \in lastPaint.queries : 0 <= q[2] /\ q[2] <= numBins - 1
C20_Witness ==
    /\ lastOp = "paint" /\ detailLevel = "HIGH"
    /\ numBins >= 3 /\ binSize.num % binSize.den # 0
    /\ <<0, numBins - 1>> \in lastPaint.queries
    /\ BinStartFrame(binSize, numBins - 1) + BinNumFrames(binSize) < NumFrames

\* C15: the order positions of the N items are always a permutation of
\* 0 .. N-1; every in-progress proposal names target positions (each
\* carried position + numPlacesMoved) inside 0 .. N-1; and an order position
\* changes only in the step of a pointer move that emits a proposal, by the
\* shift that proposal asks the scene for: paint, setRect, press, release
\* and the position-change handler leave every order position as it was.
IsPermutation(op) == {op[i] : i \in Items} = 0 .. (NumItems - 1)
C15_OrderPermutation ==
    /\ [](/\ IsPermutation(orderPos)
          /\ \A k \in 1 .. Len(emitted) :
                emitted[k].sig = "orderPosIsChanging" =>
                    /\ emitted[k].n # 0
                    /\ \A j \in 1 .. Len(emitted[k].positions) :
                          emitted[k].positions[j] + emitted[k].n \in 0 .. (NumItems - 1))
    /\ [][orderPos' # orderPos =>
              /\ lastOp' = "move"
              /\ Len(emitted') = 1 /\ emitted'[1].sig = "orderPosIsChanging"
              /\ \A i \in Items :
                    IF i \in selected THEN orderPos'[i] = orderPos[i] + emitted'[1].n
                    ELSE orderPos'[i] \in {orderPos[i], orderPos[i] + Cardinality(selected),
                                          orderPos[i] - Cardinality(selected)}]_vars
C15_Witness ==
    /\ lastOp = "move" /\ emitted # <<>>
    /\ Len(emitted[1].positions) = 2
    /\ emitted[1].positions[1] + emitted[1].n = 0
    /\ orderPos # [i \in Items |-> i - 1]
    /\ \E i \in Items : orderPosBeforeMove[i] # NOT_SET /\ orderPos[i] # pressOrder[i]

\* C21: at LOW or HIGH detail with all the bins 0 .. numBins - 1 cached,
\* every frame of the buffer lies in the frame range queried for exactly one
\* bin.
BinsOfFrame(f) ==
    {b \in 0 .. (numBins - 1) :
        /\ BinStartFrame(binSize, b) <= f
        /\ f < BinStartFrame(binSize, b) + BinNumFrames(binSize)}
C21_FramesInExactlyOneBin ==
    (/\ globalScaleFactor # Unset /\ detailLevel \in {"LOW", "HIGH"}
     /\ numBins >= 1 /\ firstCalculatedBin = 0 /\ lastCalculatedBin = numBins - 1)
    => \A f \in 0 .. (NumFrames - 1) : Cardinality(BinsOfFrame(f)) = 1

\* C22: a pointer move emits at most one proposal and none when the pointer's
\* x did not change; a proposal of a leftward move has numPlacesMoved < 0,
\* one of a rightward move numPlacesMoved > 0; and the occupant the
\* displacement is computed from is not a selected item, the selected
\* items' order positions being carried in increasing order.
C22_OneSignedProposal ==
    lastOp = "move" =>
        /\ Len(emitted) <= 1
        /\ lastMove.dx = 0 => emitted = <<>>
        /\ \A k \in 1 .. Len(lastMove.positions) :
              k > 1 => lastMove.positions[k - 1] < lastMove.positions[k]
        /\ emitted # <<>> =>
              /\ emitted[1].sig = "orderPosIsChanging"
              /\ emitted[1].n # 0
              /\ lastMove.dx < 0 => emitted[1].n < 0
              /\ lastMove.dx > 0 => emitted[1].n > 0
              /\ lastMove.other \in Items \ selected
              /\ \A k \in 1 .. Len(lastMove.positions) :
                    lastMove.positions[k] # lastMove.otherOrderPos
C22_Witness ==
    /\ lastOp = "move" /\ lastMove.dx < 0
    /\ Cardinality(selected) = 2 /\ grabber # LeftmostSelected
    /\ emitted # <<>> /\ emitted[1].n < 0
    /\ lastMove.other \notin selected

====
